---- MODULE Spec2Model ----
(***************************************************************************)
(* Sentiment Analysis API (src/app.py): the module-level start-up          *)
(* sequence (model load, background Gradio thread, uvicorn server), the    *)
(* four HTTP handlers and the Gradio UI handler.                           *)
(*                                                                         *)
(* Strings are sequences of one-character strings.  Scores are fixed-point *)
(* integers with 4 + ExtraDigits decimal digits.  The classifier behind    *)
(* the pipeline object is a function from input string to outcome (a       *)
(* label/score pair, or an exception message); which function it is, is    *)
(* chosen when the load succeeds.  Handlers have only local variables and  *)
(* do not await, so each one is a single step.                             *)
(***************************************************************************)
EXTENDS Integers, Sequences, FiniteSets, TLC

VARIABLES pc, sentiment_pipeline, adapter, ui_thread, req, resp, calls,
          pinned, health_seen

vars == <<pc, sentiment_pipeline, adapter, ui_thread, req, resp, calls,
          pinned, health_seen>>

----------------------------------------------------------------------------
(* Bounds of the model *)

\* decimal digits a raw score carries beyond the 4 that are reported
ExtraDigits == 1
\* how many characters beyond MaxChars the longest input text has
MaxExtra == 1
\* length of the batch lists that are enumerated exhaustively
MaxTail == 2
\* how many items beyond BatchLimit the longest batch list has
MaxOver == 2

----------------------------------------------------------------------------
(* Program constants *)

MaxChars == 512
BatchLimit == 10

Unit == 10 ^ ExtraDigits
\* 0.6 in fixed point
Threshold == 6 * 1000 * Unit

NEUTRAL == "NEUTRAL"
Labels == {"POSITIVE", "NEGATIVE"}

Unset == "unset"
None == "None"
Loaded == "loaded"

----------------------------------------------------------------------------
(* Inputs *)

Min(a, b) == IF a < b THEN a ELSE b

Pad(n, c) == [i \in 1..n |-> c]

Whitespace == {" ", "\t", "\n"}

EmptyText == <<>>
BlankText == <<" ", "\t">>
ShortText == <<" ", "a">>
FullText == Pad(MaxChars, "a")
LongTexts == {FullText \o Pad(k, "b") : k \in 1..MaxExtra}

Texts == {EmptyText, BlankText, ShortText, FullText} \cup LongTexts

\* 0.59996 (its 4-decimal rounding is 0.6), 0.6, 0.95
JustBelow == Threshold - 4
HighScore == 95 * 100 * Unit
Scores == {JustBelow, Threshold, HighScore}

Messages == {"CUDA out of memory", "index out of range"}

Outcomes == [label : Labels, score : Scores] \cup [raise : Messages]

Raised(o) == "raise" \in DOMAIN o

\* the strings of the input universe that satisfy the adapter's contract
AdapterInputs == {t \in Texts : Len(t) <= MaxChars /\ \E i \in 1..Len(t) : t[i] \notin Whitespace}

Adapters == [AdapterInputs -> Outcomes]

NoAdapter == <<>>

LongText == FullText \o Pad(MaxExtra, "b")

TailTexts == {EmptyText, ShortText, LongText}

RECURSIVE SeqsUpTo(_, _)
SeqsUpTo(S, n) ==
    IF n = 0 THEN {<<>>}
    ELSE LET shorter == SeqsUpTo(S, n - 1)
         IN  shorter \cup {Append(s, x) : s \in {q \in shorter : Len(q) = n - 1}, x \in S}

\* every list of at most MaxTail items
ShortLists == SeqsUpTo(TailTexts, MaxTail)

\* lengths from the batch limit on
LimitLens == BatchLimit..(BatchLimit + MaxOver)

\* where the long text is put: early, last within the limit, first beyond it
LongAt == {2, BatchLimit, BatchLimit + 1}

\* n items: every third one blank, the k-th one the long text, the rest short
MixedList(n, k) ==
    [i \in 1..n |-> IF i = k THEN LongText ELSE IF i % 3 = 0 THEN BlankText ELSE ShortText]

BatchInputs ==
    ShortLists
    \cup {Pad(n, BlankText) : n \in 1..MaxTail}
    \cup {Pad(n, ShortText) : n \in LimitLens}
    \cup {MixedList(n, k) : n \in LimitLens, k \in LongAt}

----------------------------------------------------------------------------
(* Pure helpers *)

RECURSIVE LStrip(_)
LStrip(s) == IF s # <<>> /\ Head(s) \in Whitespace THEN LStrip(Tail(s)) ELSE s

RECURSIVE RStrip(_)
RStrip(s) ==
    IF s # <<>> /\ s[Len(s)] \in Whitespace THEN RStrip(SubSeq(s, 1, Len(s) - 1)) ELSE s

\* str.strip()
Strip(s) == RStrip(LStrip(s))

\* validation that forgets strip(): only the empty string is rejected
NotStrippedIsBlank(text) == text = <<>>

\* `not text.strip()`
IsBlank(text) == Strip(text) = <<>>

\* no slice: the whole text goes to the adapter
NoTruncate(text) == text

\* text[:512]
Truncate(text) == SubSeq(text, 1, Min(Len(text), MaxChars))

\* no slice: every item of the list is processed
NoBatchSlice(texts) == texts

\* input_data.texts[:10]
BatchSlice(texts) == SubSeq(texts, 1, Min(Len(texts), BatchLimit))

\* round(x, 4): to the nearest multiple of Unit, ties to even; the result is
\* in units of 0.0001
Round4(score) ==
    LET q == score \div Unit
        r == score % Unit
    IN  IF 2 * r < Unit THEN q
        ELSE IF 2 * r > Unit THEN q + 1
        ELSE IF q % 2 = 0 THEN q ELSE q + 1

\* threshold compared with <= instead of <
DecideInclusive(label, score) == IF score <= Threshold THEN NEUTRAL ELSE label

\* threshold applied to the rounded confidence instead of the raw score
DecideRounded(label, score) == IF Round4(score) * Unit < Threshold THEN NEUTRAL ELSE label

\* `sentiment` kept in a module-level variable: a NEUTRAL of the previous
\* response leaks into the next one
DecideSticky(label, score) ==
    IF score < Threshold \/ ("sentiment" \in DOMAIN resp /\ resp.sentiment = NEUTRAL)
    THEN NEUTRAL ELSE label

\* sentiment = result['label']; if confidence < 0.6: sentiment = "NEUTRAL"
Decide(label, score) == IF score < Threshold THEN NEUTRAL ELSE label

\* sentiment_pipeline(x)[0]: the classifier's answer on x.  A string outside
\* the adapter's contract is refused by the adapter.
CallAdapter(x) ==
    IF x \in DOMAIN adapter THEN adapter[x] ELSE [raise |-> "input outside adapter contract"]

HTTPException(kind, status_code, detail) ==
    [kind |-> kind, status |-> status_code, detail |-> detail]

----------------------------------------------------------------------------
(* Handlers: each yields the response and the log of adapter invocations *)

NoResp == [kind |-> "none"]

Call(x) == [input |-> x, outcome |-> CallAdapter(x)]

\* the empty-input check placed before the model-unavailable check
analyze_sentiment_empty_first(input_data) ==
    IF IsBlank(input_data.text)
    THEN [resp |-> HTTPException("analyze", 400, "Text cannot be empty"), calls |-> <<>>]
    ELSE IF sentiment_pipeline = None
    THEN [resp |-> HTTPException("analyze", 503, "Model not loaded"), calls |-> <<>>]
    ELSE LET c == Call(Truncate(input_data.text))
         IN  IF Raised(c.outcome)
             THEN [resp |-> HTTPException("analyze", 500, c.outcome.raise), calls |-> <<c>>]
             ELSE [resp |-> [kind |-> "analyze", status |-> 200,
                             text |-> input_data.text,
                             sentiment |-> Decide(c.outcome.label, c.outcome.score),
                             confidence |-> Round4(c.outcome.score),
                             all_scores |-> <<[label |-> c.outcome.label,
                                               score |-> Round4(c.outcome.score)]>>],
                   calls |-> <<c>>]

\* POST /analyze
analyze_sentiment(input_data) ==
    IF sentiment_pipeline = None
    THEN [resp |-> HTTPException("analyze", 503, "Model not loaded"), calls |-> <<>>]
    ELSE IF IsBlank(input_data.text)
    THEN [resp |-> HTTPException("analyze", 400, "Text cannot be empty"), calls |-> <<>>]
    ELSE LET c == Call(Truncate(input_data.text))
         IN  IF Raised(c.outcome)
             THEN [resp |-> HTTPException("analyze", 500, c.outcome.raise), calls |-> <<c>>]
             ELSE [resp |-> [kind |-> "analyze", status |-> 200,
                             text |-> input_data.text,
                             sentiment |-> Decide(c.outcome.label, c.outcome.score),
                             confidence |-> Round4(c.outcome.score),
                             all_scores |-> <<[label |-> c.outcome.label,
                                               score |-> Round4(c.outcome.score)]>>],
                   calls |-> <<c>>]

BatchRecord(text, o) ==
    [text |-> text, sentiment |-> Decide(o.label, o.score), confidence |-> Round4(o.score)]

\* per-item isolation: an item whose classification raises is dropped and the
\* loop goes on
RECURSIVE BatchLoopIsolated(_, _, _)
BatchLoopIsolated(items, results, log) ==
    IF items = <<>> THEN [raised |-> FALSE, results |-> results, calls |-> log]
    ELSE LET text == Head(items)
         IN  IF IsBlank(text) THEN BatchLoopIsolated(Tail(items), results, log)
             ELSE LET c == Call(Truncate(text))
                  IN  IF Raised(c.outcome)
                      THEN BatchLoopIsolated(Tail(items), results, Append(log, c))
                      ELSE BatchLoopIsolated(Tail(items),
                                             Append(results, BatchRecord(text, c.outcome)),
                                             Append(log, c))

\* the for loop of batch_analyze_sentiment over the retained items; an
\* adapter exception leaves the loop
RECURSIVE BatchLoop(_, _, _)
BatchLoop(items, results, log) ==
    IF items = <<>> THEN [raised |-> FALSE, results |-> results, calls |-> log]
    ELSE LET text == Head(items)
         IN  IF IsBlank(text) THEN BatchLoop(Tail(items), results, log)
             ELSE LET c == Call(Truncate(text))
                  IN  IF Raised(c.outcome)
                      THEN [raised |-> TRUE, message |-> c.outcome.raise,
                            calls |-> Append(log, c)]
                      ELSE BatchLoop(Tail(items),
                                     Append(results, BatchRecord(text, c.outcome)),
                                     Append(log, c))

\* POST /batch-analyze
batch_analyze_sentiment(input_data) ==
    IF sentiment_pipeline = None
    THEN [resp |-> HTTPException("batch", 503, "Model not loaded"), calls |-> <<>>]
    ELSE IF input_data.texts = <<>>
    THEN [resp |-> HTTPException("batch", 400, "Texts list cannot be empty"), calls |-> <<>>]
    ELSE LET run == BatchLoop(BatchSlice(input_data.texts), <<>>, <<>>)
         IN  IF run.raised
             THEN [resp |-> HTTPException("batch", 500, run.message), calls |-> run.calls]
             ELSE [resp |-> [kind |-> "batch", status |-> 200, results |-> run.results],
                   calls |-> run.calls]

\* GET /health
health_check ==
    [kind |-> "health", status |-> 200, body_status |-> "healthy",
     model_loaded |-> (sentiment_pipeline # None)]

\* GET /
root ==
    [kind |-> "root", status |-> 200, message |-> "Sentiment Analysis API"]

\* the Gradio click handler of app.py; it has no try and no None check, so a
\* None pipeline is called and the TypeError leaves the handler
gradio_sentiment(text) ==
    IF IsBlank(text)
    THEN [resp |-> [kind |-> "ui", Error |-> "Text cannot be empty."], calls |-> <<>>]
    ELSE IF sentiment_pipeline = Unset
    THEN [resp |-> [kind |-> "ui", exception |-> "NameError"], calls |-> <<>>]
    ELSE IF sentiment_pipeline = None
    THEN [resp |-> [kind |-> "ui", exception |-> "TypeError: 'NoneType' object is not callable"],
          calls |-> <<>>]
    ELSE LET c == Call(Truncate(text))
         IN  IF Raised(c.outcome)
             THEN [resp |-> [kind |-> "ui", exception |-> c.outcome.raise], calls |-> <<c>>]
             ELSE [resp |-> [kind |-> "ui",
                             Sentiment |-> Decide(c.outcome.label, c.outcome.score),
                             Confidence |-> Round4(c.outcome.score)],
                   calls |-> <<c>>]

----------------------------------------------------------------------------
(* State machine *)

Init ==
    /\ pc = "load"
    /\ sentiment_pipeline = Unset
    /\ adapter = NoAdapter
    /\ ui_thread = FALSE
    /\ req = [kind |-> "none"]
    /\ resp = NoResp
    /\ calls = <<>>
    /\ pinned = NoResp
    /\ health_seen = {}

\* lines 29-40: pipeline(...) succeeds, or raises and the handle becomes None
LoadModel ==
    /\ pc = "load"
    /\ \/ /\ sentiment_pipeline' = Loaded
          /\ adapter' \in Adapters
       \/ /\ sentiment_pipeline' = None
          /\ adapter' = adapter
    /\ pc' = "thread"
    /\ UNCHANGED <<ui_thread, req, resp, calls, pinned, health_seen>>

\* the thread is started while the model load has not run yet
StartGradioThreadEarly ==
    /\ pc = "load"
    /\ ~ui_thread
    /\ ui_thread' = TRUE
    /\ UNCHANGED <<pc, sentiment_pipeline, adapter, req, resp, calls, pinned, health_seen>>

\* line 237: threading.Thread(target=launch_gradio, daemon=True).start()
StartGradioThread ==
    /\ pc = "thread"
    /\ ui_thread' = TRUE
    /\ pc' = "run"
    /\ UNCHANGED <<sentiment_pipeline, adapter, req, resp, calls, pinned, health_seen>>

\* line 240: uvicorn.run(app, ...)
RunServer ==
    /\ pc = "run"
    /\ pc' = "serving"
    /\ UNCHANGED <<sentiment_pipeline, adapter, ui_thread, req, resp, calls, pinned, health_seen>>

\* history: once an exchange is pinned, note that another handler has run
OtherRan == IF pinned.kind = "pinned" THEN [pinned EXCEPT !.others = TRUE] ELSE pinned

\* pin: whether this exchange is remembered as the reference exchange that
\* later /analyze responses are compared with (at most one is remembered);
\* pinned.again notes a later /analyze of the same text, pinned.others any
\* other handler run since
Analyze(text, pin) ==
    /\ pc = "serving"
    /\ LET out == analyze_sentiment([text |-> text])
       IN  /\ req' = [kind |-> "analyze", text |-> text]
           /\ resp' = out.resp
           /\ calls' = out.calls
           /\ pinned' = IF pinned.kind = "pinned"
                        THEN IF pinned.text = text
                             THEN [pinned EXCEPT !.again = TRUE]
                             ELSE [pinned EXCEPT !.others = TRUE]
                        ELSE IF pin
                        THEN [kind |-> "pinned", text |-> text, resp |-> out.resp,
                              others |-> FALSE, again |-> FALSE]
                        ELSE pinned
    /\ UNCHANGED <<pc, sentiment_pipeline, adapter, ui_thread, health_seen>>

BatchAnalyze(texts) ==
    /\ pc = "serving"
    /\ LET out == batch_analyze_sentiment([texts |-> texts])
       IN  /\ req' = [kind |-> "batch", texts |-> texts]
           /\ resp' = out.resp
           /\ calls' = out.calls
    /\ UNCHANGED <<pc, sentiment_pipeline, adapter, ui_thread, health_seen>>
    /\ pinned' = OtherRan

HealthCheck ==
    /\ pc = "serving"
    /\ req' = [kind |-> "health"]
    /\ resp' = health_check
    /\ calls' = <<>>
    /\ health_seen' = health_seen \cup {health_check.model_loaded}
    /\ UNCHANGED <<pc, sentiment_pipeline, adapter, ui_thread>>
    /\ pinned' = OtherRan

Root ==
    /\ pc = "serving"
    /\ req' = [kind |-> "root"]
    /\ resp' = root
    /\ calls' = <<>>
    /\ UNCHANGED <<pc, sentiment_pipeline, adapter, ui_thread, health_seen>>
    /\ pinned' = OtherRan

GradioSentiment(text) ==
    /\ ui_thread
    /\ LET out == gradio_sentiment(text)
       IN  /\ req' = [kind |-> "ui", text |-> text]
           /\ resp' = out.resp
           /\ calls' = out.calls
    /\ UNCHANGED <<pc, sentiment_pipeline, adapter, ui_thread, health_seen>>
    /\ pinned' = OtherRan

Next ==
    \/ LoadModel
    \/ StartGradioThread
    \/ RunServer
    \/ \E text \in Texts : Analyze(text, FALSE)
    \/ \E texts \in BatchInputs : BatchAnalyze(texts)
    \/ HealthCheck
    \/ Root
    \/ \E text \in Texts : GradioSentiment(text)

Spec == Init /\ [][Next]_vars

\* the same program, with one /analyze exchange remembered
PinBatchInputs == {<<>>, <<ShortText>>, <<LongText, BlankText, ShortText>>}

NextPinned ==
    \/ LoadModel
    \/ StartGradioThread
    \/ RunServer
    \/ \E text \in Texts, pin \in BOOLEAN : Analyze(text, pin)
    \/ \E texts \in PinBatchInputs : BatchAnalyze(texts)
    \/ HealthCheck
    \/ Root
    \/ \E text \in Texts : GradioSentiment(text)

SpecPinned == Init /\ [][NextPinned]_vars

----------------------------------------------------------------------------
(* Properties.  They are stated on the observed exchange: the request, the  *)
(* response and the log of adapter invocations made for it.  The helpers   *)
(* below are written independently of the handlers' own helpers.           *)

AllWhitespace(t) == \A i \in 1..Len(t) : t[i] \in Whitespace

NonBlankItem(t) == ~AllWhitespace(t)

\* the string made of the first MaxChars characters of t
First512(t) == [i \in 1..Min(Len(t), MaxChars) |-> t[i]]

\* the items of a batch that lie within the limit
Retained(texts) == [i \in 1..Min(Len(texts), BatchLimit) |-> texts[i]]

Kept(texts) == SelectSeq(Retained(texts), NonBlankItem)

IsHttp == req.kind \in {"analyze", "batch"}

Ok == IsHttp /\ resp.status = 200

\* the records of a successful response, /analyze having exactly one
Records == IF req.kind = "analyze" THEN <<resp>> ELSE resp.results

\* C1: in /analyze and /batch-analyze, each reported sentiment is NEUTRAL when
\* the raw score is below 0.6 and the raw label otherwise; a score of exactly
\* 0.6 keeps the raw label.
C1_ThresholdDecision ==
    Ok => /\ Len(Records) = Len(calls)
          /\ \A i \in 1..Len(Records) :
                LET o == calls[i].outcome
                IN  /\ o.label \in Labels
                    /\ o.score < Threshold => Records[i].sentiment = NEUTRAL
                    /\ o.score >= Threshold => Records[i].sentiment = o.label

C1_Witness ==
    /\ req.kind = "batch" /\ resp.status = 200
    /\ \E i, j \in 1..Len(resp.results) :
          /\ calls[i].outcome.score = Threshold
          /\ resp.results[i].sentiment = calls[i].outcome.label
          /\ calls[j].outcome.score < Threshold
          /\ resp.results[j].sentiment = NEUTRAL

\* C2: with the classifier loaded, an /analyze request with empty or
\* whitespace-only text and a /batch-analyze request with an empty list end in
\* a 400 response, with no adapter invocation.
C2_EmptyInputRejected ==
    (sentiment_pipeline = Loaded /\ IsHttp) =>
        /\ (req.kind = "analyze" /\ AllWhitespace(req.text)) =>
               (resp.status = 400 /\ calls = <<>>)
        /\ (req.kind = "batch" /\ Len(req.texts) = 0) =>
               (resp.status = 400 /\ calls = <<>>)

C2_Witness ==
    /\ sentiment_pipeline = Loaded
    /\ req.kind = "analyze" /\ req.text = BlankText
    /\ resp.status = 400 /\ calls = <<>>

\* C3: when the classifier failed to load, every /analyze and /batch-analyze
\* request ends in a 503 response whatever its body, blank text and empty list
\* included, with no adapter invocation.
C3_ModelUnavailableFirst ==
    (sentiment_pipeline = None /\ IsHttp) => (resp.status = 503 /\ calls = <<>>)

C3_Witness ==
    /\ sentiment_pipeline = None
    /\ req.kind = "analyze" /\ req.text = BlankText
    /\ resp.status = 503

\* C4: for a non-empty list on which the adapter does not fail, the results
\* of /batch-analyze are exactly the non-blank items among the first 10, one
\* record each, in their order; later items are neither classified nor
\* reported, and there are never more than 10 records.
C4_BatchResults ==
    (/\ req.kind = "batch" /\ sentiment_pipeline = Loaded /\ Len(req.texts) > 0
     /\ \A i \in 1..Len(Kept(req.texts)) : ~Raised(adapter[First512(Kept(req.texts)[i])]))
    => /\ resp.status = 200
       /\ Len(resp.results) <= BatchLimit
       /\ Len(resp.results) = Len(Kept(req.texts))
       /\ Len(calls) = Len(Kept(req.texts))
       /\ \A i \in 1..Len(resp.results) :
             /\ resp.results[i].text = Kept(req.texts)[i]
             /\ calls[i].input = First512(Kept(req.texts)[i])

C4_Witness ==
    /\ req.kind = "batch" /\ resp.status = 200
    /\ Len(req.texts) > BatchLimit
    /\ NonBlankItem(req.texts[BatchLimit + 1])
    /\ \E i \in 1..BatchLimit : AllWhitespace(req.texts[i])
    /\ Len(resp.results) > 0
    /\ Len(resp.results) < BatchLimit

\* C5: an adapter failure ends the call: the response is a 500 carrying the
\* adapter's message, it has no result records, and the failing invocation is
\* the last one made for the request.
C5_FailureIsTerminal ==
    IsHttp =>
        /\ (\E i \in 1..Len(calls) : Raised(calls[i].outcome)) =>
               /\ resp.status = 500
               /\ resp.detail = calls[Len(calls)].outcome.raise
               /\ "results" \notin DOMAIN resp
               /\ \A i \in 1..(Len(calls) - 1) : ~Raised(calls[i].outcome)
        /\ (/\ sentiment_pipeline = Loaded /\ req.kind = "analyze"
            /\ NonBlankItem(req.text) /\ Raised(adapter[First512(req.text)])) =>
               (resp.status = 500 /\ Len(calls) = 1)
        /\ (/\ sentiment_pipeline = Loaded /\ req.kind = "batch"
            /\ \E i \in 1..Len(Kept(req.texts)) :
                  Raised(adapter[First512(Kept(req.texts)[i])])) =>
               /\ resp.status = 500
               /\ Raised(adapter[First512(Kept(req.texts)[Len(calls)])])
               /\ \A i \in 1..(Len(calls) - 1) :
                     ~Raised(adapter[First512(Kept(req.texts)[i])])

C5_Witness ==
    /\ req.kind = "batch" /\ resp.status = 500
    /\ Len(calls) >= 2
    /\ Len(calls) < Len(Kept(req.texts))

\* C6: the adapter is only ever invoked with the first 512 characters of a
\* non-blank text, while the text field of the record is the original text.
C6_TruncatedCallOriginalEcho ==
    IsHttp =>
        /\ \A i \in 1..Len(calls) : Len(calls[i].input) <= MaxChars
        /\ Ok => \A i \in 1..Len(Records) :
                    LET text == Records[i].text
                        x == calls[i].input
                    IN  /\ Len(x) = Min(Len(text), MaxChars)
                        /\ \A k \in 1..Len(x) : x[k] = text[k]
                        /\ NonBlankItem(text)
                        /\ req.kind = "analyze" => text = req.text
                        /\ req.kind = "batch" =>
                              \E k \in 1..Len(req.texts) : text = req.texts[k]

C6_Witness ==
    /\ req.kind = "analyze" /\ resp.status = 200
    /\ Len(req.text) > MaxChars
    /\ Len(calls[1].input) = MaxChars
    /\ resp.text = req.text

\* C7: an /analyze request with the same text as an earlier /analyze request
\* gets the same response, whatever handlers ran before or in between.
C7_SameTextSameResult ==
    (pinned.kind = "pinned" /\ req.kind = "analyze" /\ req.text = pinned.text) =>
        resp = pinned.resp

C7_Witness ==
    /\ pinned.kind = "pinned" /\ pinned.again /\ pinned.others
    /\ req.kind = "analyze" /\ req.text = pinned.text
    /\ resp.status = 200

\* C8: the classifier handle is assigned once, by the start-up load, before
\* the UI thread starts and before any request is handled; no handler writes
\* it, and /health reports the same model_loaded value every time.
C8_HandleAssignedOnce ==
    /\ [](ui_thread \/ req.kind # "none" \/ pc \in {"run", "serving"}
             => sentiment_pipeline \in {Loaded, None})
    /\ [][sentiment_pipeline' # sentiment_pipeline
             => pc = "load" /\ sentiment_pipeline = Unset]_vars
    /\ [](Cardinality(health_seen) <= 1)
    /\ [](req.kind = "health" => resp.model_loaded = (sentiment_pipeline = Loaded))

C8_Witness ==
    /\ health_seen # {}
    /\ req.kind = "ui"
    /\ calls # <<>>

\* C9: when the classifier failed to load, the UI handler answers a non-blank
\* text with a service-unavailable outcome and does not try to call the
\* pipeline.
C9_UiFailsFast ==
    (req.kind = "ui" /\ sentiment_pipeline = None /\ NonBlankItem(req.text)) =>
        /\ "exception" \notin DOMAIN resp
        /\ \/ ("status" \in DOMAIN resp /\ resp.status = 503)
           \/ ("Error" \in DOMAIN resp /\ resp.Error = "Model not loaded")
        /\ calls = <<>>

\* C10: the NEUTRAL decision is taken on the unrounded score; only the
\* reported confidence is rounded to 4 decimals.  A score below 0.6 whose
\* rounding is 0.6 is reported as NEUTRAL with confidence 0.6, and a score of
\* exactly 0.6 as the raw label with confidence 0.6.
C10_DecisionOnUnroundedScore ==
    Ok => \A i \in 1..Len(Records) :
             LET o == calls[i].outcome
                 reported == Records[i].confidence * Unit
             IN  /\ 2 * (reported - o.score) <= Unit
                 /\ 2 * (o.score - reported) <= Unit
                 /\ (o.score < Threshold /\ reported = Threshold) =>
                        Records[i].sentiment = NEUTRAL
                 /\ o.score = Threshold =>
                        (Records[i].sentiment = o.label /\ reported = Threshold)

C10_Witness ==
    /\ req.kind = "batch" /\ resp.status = 200
    /\ \E i, j \in 1..Len(resp.results) :
          /\ resp.results[i].confidence = resp.results[j].confidence
          /\ resp.results[i].confidence * Unit = Threshold
          /\ resp.results[i].sentiment = NEUTRAL
          /\ resp.results[j].sentiment \in Labels

====
